---- MODULE Spec2Model ----
(***************************************************************************)
(* OTP authentication flow of the perfume-recommender backend:             *)
(* routes/auth.ts (signup, login, verify), utils/auth.ts (normalisation,   *)
(* hashing, OTP generation, expiry) and the users / login_codes tables of  *)
(* the migration.  Every request handler is an async function; each await  *)
(* of a storage call is a point where other requests and the clock may     *)
(* advance, so a handler is modelled as one action per storage round trip. *)
(***************************************************************************)
EXTENDS Integers, Sequences, FiniteSets, TLC

(* ---------------- bounds of the model ---------------- *)

\* number of requests that may be in flight at the same time
MaxInFlight == 2

\* rows the users table may hold
MaxUsers == 2

\* rows the login_codes table may hold
MaxCodes == 2

\* longest email string given to the utils/auth.ts functions called on their own
MaxEmailLen == 3

\* the clock is observed over the expiry periods 0..MaxPeriods ...
MaxPeriods == 1

\* ... at the minutes 0..MaxOffset after the start of each period
MaxOffset == 1

(* ---------------- program constants ---------------- *)

\* getOTPExpiry(5): minutes a code stays valid
OTPMinutes == 5

\* padStart(6, '0'): width of a generated code
OTPWidth == 6

\* crypto.randomInt(0, 1000000): exclusive upper end of the values drawn
OTPRange == 1000000

\* "code" VARCHAR(6): width of the login_codes.code column
CodeColumnWidth == 6

(* ---------------- JavaScript values of a request body ---------------- *)

\* a JSON string value; its characters are a sequence of one-character strings
Str(s) == [k |-> "string", s |-> s]

\* a field absent from the request body
Undefined == [k |-> "undefined", s |-> <<>>]

\* a JSON number value, written with the digits s
Num(s) == [k |-> "number", s |-> s]

Truthy_AnyString(v) == v.k = "string" \/ (v.k = "number" /\ v.s # <<"0">>)

\* JavaScript truthiness, as used by `!email`, `!phone`, `!userId`, `!code`
Truthy(v) == (v.k = "string" /\ v.s # <<>>) \/ (v.k = "number" /\ v.s # <<"0">>)

\* email.trim / phone.replace exist only on strings: on any other value the call throws a TypeError
IsString(v) == v.k = "string"

(* ---------------- utils/auth.ts ---------------- *)

WhiteSpace == {" ", "\t"}

DigitChars == <<"0", "1", "2", "3", "4", "5", "6", "7", "8", "9">>

IsDigitChar(c) == \E d \in DOMAIN DigitChars : DigitChars[d] = c

\* String.prototype.toLowerCase on one character
LowerChar(c) == IF c = "A" THEN "a" ELSE IF c = "B" THEN "b" ELSE c

toLowerCase(s) == [j \in DOMAIN s |-> LowerChar(s[j])]

RECURSIVE trimStart(_)
trimStart(s) == IF s # <<>> /\ Head(s) \in WhiteSpace THEN trimStart(Tail(s)) ELSE s

RECURSIVE trimEnd(_)
trimEnd(s) == IF s # <<>> /\ s[Len(s)] \in WhiteSpace THEN trimEnd(SubSeq(s, 1, Len(s) - 1)) ELSE s

\* String.prototype.trim
trim(s) == trimEnd(trimStart(s))

normalizeEmail_NoTrim(email) == toLowerCase(email)

normalizeEmail_NoLower(email) == trim(email)

normalizeEmail_TrimStartOnly(email) == toLowerCase(trimStart(email))

normalizeEmail(email) == toLowerCase(trim(email))

\* phone.replace(/\D/g, '')
normalizePhone(phone) == SelectSeq(phone, IsDigitChar)

\* SHA-256 hex digest, modelled as a collision-free tagging of its input
hashString(input) == [sha256 |-> input]

hashEmail(email) == hashString(normalizeEmail(email))

hashPhone(phone) == hashString(normalizePhone(phone))

RECURSIVE NumToString(_)
\* Number.prototype.toString for a non-negative integer
NumToString(n) == IF n < 10 THEN <<DigitChars[n + 1]>> ELSE NumToString(n \div 10) \o <<DigitChars[(n % 10) + 1]>>

RECURSIVE padStart(_, _, _)
padStart(s, width, ch) == IF Len(s) >= width THEN s ELSE padStart(<<ch>> \o s, width, ch)

generateOTP_NoPad(n) == NumToString(n)

\* generateOTP, for the value n drawn by crypto.randomInt(0, 1000000)
generateOTP(n) == padStart(NumToString(n), OTPWidth, "0")

getOTPExpiry_Short(minutes, t) == t + minutes - 1

\* getOTPExpiry, evaluated when the clock reads t
getOTPExpiry(minutes, t) == t + minutes

isOTPValid_NonStrict(expiresAt, t) == t <= expiresAt

isOTPValid_Always(expiresAt, t) == TRUE

\* isOTPValid, evaluated when the clock reads t
isOTPValid(expiresAt, t) == t < expiresAt

(* ---------------- inputs ---------------- *)

\* values crypto.randomInt yields in the model
OTPDraws == {7, 123456}

EmailInputs == {Undefined, Str(<<>>), Str(<<"a">>), Str(<<"A", " ">>), Str(<<"b">>)}

PhoneInputs == {Str(<<>>), Str(<<"(", "5", ")", "1">>)}

\* cuid() of the n-th row of a table
UserId(n) == <<"u">> \o NumToString(n)

CodeId(n) == <<"c">> \o NumToString(n)

UserIdInputs == {Str(UserId(n)) : n \in 1..MaxUsers}

CodeInputs == {Str(generateOTP(n)) : n \in OTPDraws}

\* request bodies with a field of another JSON type, or with a field left out
AnyEmailInputs == EmailInputs \cup {Num(<<"4", "2">>)}

AnyPhoneInputs == PhoneInputs \cup {Undefined, Num(<<"4", "2">>)}

AnyUserIdInputs == UserIdInputs \cup {Undefined, Str(<<>>)}

AnyCodeInputs == CodeInputs \cup {Undefined, Str(<<>>)}

(* ---------------- state ---------------- *)

VARIABLES
  users,     \* table users: sequence of rows in insertion order
  codes,     \* table login_codes: sequence of rows in insertion order
  now,       \* the clock read by new Date() and CURRENT_TIMESTAMP
  reqs,      \* the requests in flight: slot -> handler activation
  out,       \* the response sent by the step just taken (NoResponse if none), with its request's body
  signedUp,  \* history: user id -> the raw email of the signup that created it
  ok201,     \* history: the 201 signup responses, as <<raw email, returned user id>>
  grants,    \* history: login code id -> number of sessions issued by consuming it
  calc       \* a call of a utils/auth.ts function on its own: function, argument, result

vars == <<users, codes, now, reqs, out, signedUp, ok201, grants, calc>>

Slots == 1..MaxInFlight

NoSeq == <<>>

Idle == [op |-> "idle", pc |-> "idle", email |-> Undefined, phone |-> Undefined,
         userId |-> Undefined, code |-> Undefined,
         emailHash |-> hashString(NoSeq), phoneHash |-> hashString(NoSeq),
         user |-> NoSeq, otp |-> NoSeq, expiresAt |-> 0, found |-> 0]

\* threw: the error caught by the handler's catch block in this step, "" if none
NoResponse == [op |-> "none", body |-> <<>>, status |-> 0, error |-> "", userId |-> NoSeq, otpCode |-> NoSeq,
               cookie |-> Undefined, threw |-> ""]

\* the JSON body a request was sent with
Body(r) == IF r.op = "signup" THEN <<r.email, r.phone>>
           ELSE IF r.op = "login" THEN <<r.email>>
           ELSE <<r.userId, r.code>>

\* res.status(status).json({ success, error }) in answer to request r
Respond(r, status, error) == [NoResponse EXCEPT !.op = r.op, !.body = Body(r), !.status = status, !.error = error]

\* the catch block of a handler: console.error, then 500 with the fixed body
Caught(r, err) == [Respond(r, 500, "Internal server error") EXCEPT !.threw = err]

NoCalc == [fn |-> "none", arg |-> <<>>, res |-> <<>>]

\* the empty database and the idle server
InitServer ==
  /\ users = <<>>
  /\ codes = <<>>
  /\ now = 0
  /\ reqs = [i \in Slots |-> Idle]
  /\ out = NoResponse
  /\ signedUp = <<>>
  /\ ok201 = <<>>
  /\ grants = <<>>

Init == InitServer /\ calc = NoCalc

(* ---------------- storage (Prisma on PostgreSQL) ---------------- *)

\* prisma.user.findUnique({ where: { emailHash } }): index of the row, 0 if none
findUserByEmailHash(h) == IF \E u \in DOMAIN users : users[u].emailHash = h
                          THEN CHOOSE u \in DOMAIN users : users[u].emailHash = h
                          ELSE 0

uniqueViolation_Off(h) == FALSE

\* unique index users_emailHash_key: an insert of an existing emailHash is rejected
uniqueViolation(h) == \E u \in DOMAIN users : users[u].emailHash = h

unconsumedMatches_IgnoreConsumed(userId, code) ==
  {c \in DOMAIN codes : codes[c].userId = userId /\ codes[c].code = code}

unconsumedMatches_AnyUser(userId, code) ==
  {c \in DOMAIN codes : codes[c].code = code /\ ~codes[c].consumed}

\* rows matching where { userId, code, consumed: false }
unconsumedMatches(userId, code) ==
  {c \in DOMAIN codes : codes[c].userId = userId /\ codes[c].code = code /\ ~codes[c].consumed}

findFirstCandidates_Any(userId, code) == unconsumedMatches(userId, code)

\* prisma.loginCode.findFirst(... orderBy createdAt desc): the rows the query may
\* return; rows with equal createdAt are returned in an unspecified order
findFirstCandidates(userId, code) ==
  {c \in unconsumedMatches(userId, code) :
     \A d \in unconsumedMatches(userId, code) : codes[d].createdAt <= codes[c].createdAt}

(* ---------------- request bookkeeping ---------------- *)

InFlight == {i \in Slots : reqs[i].op # "idle"}

Creating == {i \in InFlight : reqs[i].op \in {"signup", "login"}}

FreeSlot == CHOOSE i \in Slots : reqs[i].op = "idle" /\ \A j \in Slots : reqs[j].op = "idle" => i <= j

\* a new request is accepted while fewer than `limit` are in flight
CanStart(limit) == Cardinality(InFlight) < limit

Finish(i, response) == /\ reqs' = [reqs EXCEPT ![i] = Idle]
                       /\ out' = response

(* ---------------- POST /signup ---------------- *)

SignupStart(limit, email, phone) ==
  /\ CanStart(limit)
  /\ Len(users) + Cardinality({i \in InFlight : reqs[i].op = "signup"}) < MaxUsers
  /\ Len(codes) + Cardinality(Creating) < MaxCodes
  /\ IF ~Truthy(email) \/ ~Truthy(phone)
     THEN /\ out' = Respond([Idle EXCEPT !.op = "signup", !.email = email, !.phone = phone],
                             400, "Email and phone are required")
          /\ UNCHANGED reqs
     ELSE IF ~IsString(email) \/ ~IsString(phone)
     THEN /\ out' = Caught([Idle EXCEPT !.op = "signup", !.email = email, !.phone = phone], "TypeError")
          /\ UNCHANGED reqs
     ELSE /\ reqs' = [reqs EXCEPT ![FreeSlot] =
                        [Idle EXCEPT !.op = "signup", !.pc = "find", !.email = email, !.phone = phone,
                                     !.emailHash = hashEmail(email.s), !.phoneHash = hashPhone(phone.s)]]
          /\ out' = NoResponse
  /\ UNCHANGED <<users, codes, now, signedUp, ok201, grants, calc>>

\* await prisma.user.findUnique, then the `if (existingUser)` branch
SignupFind(i) ==
  /\ reqs[i].op = "signup" /\ reqs[i].pc = "find"
  /\ IF findUserByEmailHash(reqs[i].emailHash) # 0
     THEN Finish(i, Respond(reqs[i], 409, "Account with this email already exists"))
     ELSE /\ reqs' = [reqs EXCEPT ![i].pc = "create"]
          /\ out' = NoResponse
  /\ UNCHANGED <<users, codes, now, signedUp, ok201, grants, calc>>

\* await prisma.user.create, then generateOTP() and getOTPExpiry(5)
SignupCreate(i) ==
  /\ reqs[i].op = "signup" /\ reqs[i].pc = "create"
  /\ IF uniqueViolation(reqs[i].emailHash)
     THEN /\ Finish(i, Caught(reqs[i], "UniqueConstraintViolation"))
          /\ UNCHANGED <<users, signedUp>>
     ELSE /\ users' = Append(users, [id |-> UserId(Len(users) + 1),
                                     emailHash |-> reqs[i].emailHash,
                                     phoneHash |-> reqs[i].phoneHash])
          /\ signedUp' = Append(signedUp, reqs[i].email)
          /\ \E n \in OTPDraws :
               reqs' = [reqs EXCEPT ![i].pc = "save", ![i].user = UserId(Len(users) + 1),
                                    ![i].otp = generateOTP(n),
                                    ![i].expiresAt = getOTPExpiry(OTPMinutes, now)]
          /\ out' = NoResponse
  /\ UNCHANGED <<codes, now, ok201, grants, calc>>

\* the row prisma.loginCode.create inserts for request r
NewLoginCode(r) == [id |-> CodeId(Len(codes) + 1), userId |-> r.user, code |-> r.otp,
                    expiresAt |-> r.expiresAt, consumed |-> FALSE, createdAt |-> now]

\* await prisma.loginCode.create, then the 201 response
SignupSave(i) ==
  /\ reqs[i].op = "signup" /\ reqs[i].pc = "save"
  /\ codes' = Append(codes, NewLoginCode(reqs[i]))
  /\ grants' = Append(grants, 0)
  /\ ok201' = Append(ok201, <<reqs[i].email, reqs[i].user>>)
  /\ Finish(i, [Respond(reqs[i], 201, "") EXCEPT !.userId = reqs[i].user, !.otpCode = reqs[i].otp])
  /\ UNCHANGED <<users, now, signedUp, calc>>

(* ---------------- POST /login ---------------- *)

LoginStart(limit, email) ==
  /\ CanStart(limit)
  /\ Len(codes) + Cardinality(Creating) < MaxCodes
  /\ IF ~Truthy(email)
     THEN /\ out' = Respond([Idle EXCEPT !.op = "login", !.email = email], 400, "Email is required")
          /\ UNCHANGED reqs
     ELSE IF ~IsString(email)
     THEN /\ out' = Caught([Idle EXCEPT !.op = "login", !.email = email], "TypeError")
          /\ UNCHANGED reqs
     ELSE /\ reqs' = [reqs EXCEPT ![FreeSlot] =
                        [Idle EXCEPT !.op = "login", !.pc = "find", !.email = email,
                                     !.emailHash = hashEmail(email.s)]]
          /\ out' = NoResponse
  /\ UNCHANGED <<users, codes, now, signedUp, ok201, grants, calc>>

\* await prisma.user.findUnique, the `if (!user)` branch, generateOTP() and getOTPExpiry(5)
LoginFind(i) ==
  /\ reqs[i].op = "login" /\ reqs[i].pc = "find"
  /\ IF findUserByEmailHash(reqs[i].emailHash) = 0
     THEN Finish(i, Respond(reqs[i], 404, "No account found with this email"))
     ELSE /\ \E n \in OTPDraws :
               reqs' = [reqs EXCEPT ![i].pc = "save",
                                    ![i].user = users[findUserByEmailHash(reqs[i].emailHash)].id,
                                    ![i].otp = generateOTP(n),
                                    ![i].expiresAt = getOTPExpiry(OTPMinutes, now)]
          /\ out' = NoResponse
  /\ UNCHANGED <<users, codes, now, signedUp, ok201, grants, calc>>

LoginSave_ReplacesOlderCodes(i) ==
  /\ reqs[i].op = "login" /\ reqs[i].pc = "save"
  /\ codes' = Append([c \in DOMAIN codes |->
                        IF codes[c].userId = reqs[i].user
                        THEN [codes[c] EXCEPT !.consumed = FALSE, !.expiresAt = reqs[i].expiresAt]
                        ELSE codes[c]],
                     NewLoginCode(reqs[i]))
  /\ grants' = Append(grants, 0)
  /\ Finish(i, [Respond(reqs[i], 200, "") EXCEPT !.userId = reqs[i].user, !.otpCode = reqs[i].otp])
  /\ UNCHANGED <<users, now, signedUp, ok201, calc>>

\* await prisma.loginCode.create, then the 200 response
LoginSave(i) ==
  /\ reqs[i].op = "login" /\ reqs[i].pc = "save"
  /\ codes' = Append(codes, NewLoginCode(reqs[i]))
  /\ grants' = Append(grants, 0)
  /\ Finish(i, [Respond(reqs[i], 200, "") EXCEPT !.userId = reqs[i].user, !.otpCode = reqs[i].otp])
  /\ UNCHANGED <<users, now, signedUp, ok201, calc>>

(* ---------------- POST /verify ---------------- *)

VerifyStart(limit, userId, code) ==
  /\ CanStart(limit)
  /\ IF ~Truthy(userId) \/ ~Truthy(code)
     THEN /\ out' = Respond([Idle EXCEPT !.op = "verify", !.userId = userId, !.code = code],
                             400, "User ID and code are required")
          /\ UNCHANGED reqs
     ELSE /\ reqs' = [reqs EXCEPT ![FreeSlot] =
                        [Idle EXCEPT !.op = "verify", !.pc = "find", !.userId = userId, !.code = code]]
          /\ out' = NoResponse
  /\ UNCHANGED <<users, codes, now, signedUp, ok201, grants, calc>>

VerifyFind_TellsUnknownUser(i) ==
  /\ reqs[i].op = "verify" /\ reqs[i].pc = "find"
  /\ IF findFirstCandidates(reqs[i].userId.s, reqs[i].code.s) = {}
     THEN Finish(i, Respond(reqs[i], 401,
                            IF \E c \in DOMAIN codes : codes[c].userId = reqs[i].userId.s
                            THEN "Invalid or expired code" ELSE "No code was requested"))
     ELSE /\ \E c \in findFirstCandidates(reqs[i].userId.s, reqs[i].code.s) :
               reqs' = [reqs EXCEPT ![i].pc = "check", ![i].found = c,
                                    ![i].expiresAt = codes[c].expiresAt]
          /\ out' = NoResponse
  /\ UNCHANGED <<users, codes, now, signedUp, ok201, grants, calc>>

\* await prisma.loginCode.findFirst, then the `if (!loginCode)` branch
VerifyFind(i) ==
  /\ reqs[i].op = "verify" /\ reqs[i].pc = "find"
  /\ IF findFirstCandidates(reqs[i].userId.s, reqs[i].code.s) = {}
     THEN Finish(i, Respond(reqs[i], 401, "Invalid or expired code"))
     ELSE /\ \E c \in findFirstCandidates(reqs[i].userId.s, reqs[i].code.s) :
               reqs' = [reqs EXCEPT ![i].pc = "check", ![i].found = c,
                                    ![i].expiresAt = codes[c].expiresAt]
          /\ out' = NoResponse
  /\ UNCHANGED <<users, codes, now, signedUp, ok201, grants, calc>>

\* `if (!isOTPValid(loginCode.expiresAt))`, which reads the clock
VerifyCheck(i) ==
  /\ reqs[i].op = "verify" /\ reqs[i].pc = "check"
  /\ IF ~isOTPValid(reqs[i].expiresAt, now)
     THEN Finish(i, Respond(reqs[i], 401, "Code has expired. Please request a new one."))
     ELSE /\ reqs' = [reqs EXCEPT ![i].pc = "update"]
          /\ out' = NoResponse
  /\ UNCHANGED <<users, codes, now, signedUp, ok201, grants, calc>>

\* await prisma.loginCode.update({ where: { id }, data: { consumed: true } }),
\* then res.cookie('userId', userId) and the 200 response
VerifyUpdate(i) ==
  /\ reqs[i].op = "verify" /\ reqs[i].pc = "update"
  /\ codes' = [codes EXCEPT ![reqs[i].found].consumed = TRUE]
  /\ grants' = [grants EXCEPT ![reqs[i].found] = @ + 1]
  /\ Finish(i, [Respond(reqs[i], 200, "") EXCEPT !.cookie = reqs[i].userId])
  /\ UNCHANGED <<users, now, signedUp, ok201, calc>>

(* ---------------- the clock ---------------- *)

\* the instants (in minutes) at which the model observes the clock
Instants == {p * OTPMinutes + o : p \in 0..MaxPeriods, o \in 0..MaxOffset}

\* time passes: the clock moves on to the next observed instant
Tick ==
  /\ \E t \in Instants : t > now
  /\ now' = CHOOSE t \in Instants : t > now /\ \A u \in Instants : u > now => t <= u
  /\ out' = NoResponse
  /\ UNCHANGED <<users, codes, reqs, signedUp, ok201, grants, calc>>

(* ---------------- storage failures ---------------- *)

\* request r is waiting for the result of a storage call
AwaitsStorage(r) == r.pc \in {"find", "create", "save", "update"}

StorageFail_Unauthorized(i) ==
  /\ reqs[i].op # "idle" /\ AwaitsStorage(reqs[i])
  /\ Finish(i, [Respond(reqs[i], 401, "Invalid or expired code") EXCEPT !.threw = "StorageError"])
  /\ UNCHANGED <<users, codes, now, signedUp, ok201, grants, calc>>

\* the awaited storage call rejects (connection lost, timeout, ...): control
\* passes to the handler's catch block, which answers 500
StorageFail(i) ==
  /\ reqs[i].op # "idle" /\ AwaitsStorage(reqs[i])
  /\ Finish(i, Caught(reqs[i], "StorageError"))
  /\ UNCHANGED <<users, codes, now, signedUp, ok201, grants, calc>>

(* ---------------- the utils/auth.ts functions called on their own ---------------- *)

EmailChars == {"a", "A", "b", " "}

EmailStrings == UNION {[1..n -> EmailChars] : n \in 0..MaxEmailLen}

Others == <<users, codes, now, reqs, out, signedUp, ok201, grants>>

\* two raw emails
EmailInit == InitServer /\ calc \in {[fn |-> "input", arg |-> <<e1, e2>>, res |-> <<>>] : e1, e2 \in EmailStrings}

\* hashEmail(e1), hashEmail(e2)
ApplyHashEmail ==
  /\ calc.fn = "input"
  /\ calc' = [fn |-> "hashEmail", arg |-> calc.arg, res |-> <<hashEmail(calc.arg[1]), hashEmail(calc.arg[2])>>]
  /\ UNCHANGED Others

\* normalizeEmail(e1)
ApplyNormalizeEmail ==
  /\ calc.fn = "input"
  /\ calc' = [fn |-> "normalizeEmail", arg |-> calc.arg, res |-> <<normalizeEmail(calc.arg[1])>>]
  /\ UNCHANGED Others

\* normalizeEmail applied to the result of normalizeEmail(e1)
ApplyNormalizeEmailAgain ==
  /\ calc.fn = "normalizeEmail"
  /\ calc' = [fn |-> "normalizeEmailTwice", arg |-> calc.arg,
               res |-> <<calc.res[1], normalizeEmail(calc.res[1])>>]
  /\ UNCHANGED Others

\* a value drawn by crypto.randomInt(0, 1000000)
OTPInit == InitServer /\ calc \in {[fn |-> "input", arg |-> n, res |-> <<>>] : n \in 0..(OTPRange - 1)}

\* generateOTP() for the value drawn
ApplyGenerateOTP ==
  /\ calc.fn = "input"
  /\ calc' = [fn |-> "generateOTP", arg |-> calc.arg, res |-> generateOTP(calc.arg)]
  /\ UNCHANGED Others

(* ---------------- specifications ---------------- *)

Steps ==
  \/ \E i \in Slots : SignupFind(i)
  \/ \E i \in Slots : SignupCreate(i)
  \/ \E i \in Slots : SignupSave(i)
  \/ \E i \in Slots : LoginFind(i)
  \/ \E i \in Slots : LoginSave(i)
  \/ \E i \in Slots : VerifyFind(i)
  \/ \E i \in Slots : VerifyCheck(i)
  \/ \E i \in Slots : VerifyUpdate(i)
  \/ Tick

\* requests are handled concurrently
Next ==
  \/ \E email \in EmailInputs, phone \in PhoneInputs : SignupStart(MaxInFlight, email, phone)
  \/ \E email \in EmailInputs : LoginStart(MaxInFlight, email)
  \/ \E userId \in UserIdInputs, code \in CodeInputs : VerifyStart(MaxInFlight, userId, code)
  \/ Steps

Spec == Init /\ [][Next]_vars

\* a client that waits for each response before it sends the next request
NextSeq ==
  \/ \E email \in AnyEmailInputs, phone \in AnyPhoneInputs : SignupStart(1, email, phone)
  \/ \E email \in AnyEmailInputs : LoginStart(1, email)
  \/ \E userId \in AnyUserIdInputs, code \in AnyCodeInputs : VerifyStart(1, userId, code)
  \/ Steps

SeqSpec == Init /\ [][NextSeq]_vars

\* the same client, with storage calls that may fail
NextFault ==
  \/ \E email \in EmailInputs, phone \in PhoneInputs : SignupStart(1, email, phone)
  \/ \E email \in EmailInputs : LoginStart(1, email)
  \/ \E userId \in UserIdInputs, code \in CodeInputs : VerifyStart(1, userId, code)
  \/ Steps
  \/ \E i \in Slots : StorageFail(i)

FaultSpec == Init /\ [][NextFault]_vars

NextEmail ==
  \/ ApplyHashEmail
  \/ ApplyNormalizeEmail
  \/ ApplyNormalizeEmailAgain

\* hashEmail and normalizeEmail on every pair of emails up to MaxEmailLen characters
EmailSpec == EmailInit /\ [][NextEmail]_vars

\* generateOTP on every value of the random source
OTPSpec == OTPInit /\ [][ApplyGenerateOTP]_vars

(* ---------------- vocabulary of the properties ---------------- *)

\* the tables, as the handlers can observe them
store == <<users, codes>>

\* request i is the one that takes the step
Steps_Of(i) == reqs'[i] # reqs[i]

\* request i takes its last step: its response is sent
Answers(i) == reqs[i].op # "idle" /\ reqs'[i] # reqs[i] /\ out'.op = reqs[i].op

\* the same letter, whatever its case
SameLetter(c, d) == c = d \/ {c, d} \in {{"A", "a"}, {"B", "b"}}

\* s without its first a and its last b characters, which are all white space
IsCore(s, a, b) == /\ a + b <= Len(s)
                   /\ \A j \in 1..a : s[j] \in WhiteSpace
                   /\ \A j \in (Len(s) - b + 1)..Len(s) : s[j] \in WhiteSpace

\* e1 and e2 differ only in letter case and in leading or trailing white space
EquivEmail(e1, e2) ==
  \E a1, b1 \in 0..Len(e1), a2, b2 \in 0..Len(e2) :
     /\ IsCore(e1, a1, b1) /\ IsCore(e2, a2, b2)
     /\ Len(e1) - a1 - b1 = Len(e2) - a2 - b2
     /\ \A j \in 1..(Len(e1) - a1 - b1) : SameLetter(e1[a1 + j], e2[a2 + j])

(* ---------------- C1 ---------------- *)

\* C1: when verify requests presenting the same (userId, code) of one valid login
\* code run concurrently, exactly one of them succeeds: no login code ever issues
\* more than one session.
C1_OneSessionPerCode == \A c \in DOMAIN grants : grants[c] <= 1

(* ---------------- C2 ---------------- *)

\* C2: a signup whose user creation is rejected by the uniqueness constraint on
\* emailHash (it passed the lookup, then a concurrent signup created the user)
\* responds 409 Conflict.
C2_RaceLoserGetsConflict ==
  [][\A i \in Slots :
       (/\ reqs[i].op = "signup" /\ reqs[i].pc = "create"
        /\ \E u \in DOMAIN users : users[u].emailHash = reqs[i].emailHash
        /\ Steps_Of(i))
       => out'.status = 409]_vars

(* ---------------- C3 ---------------- *)

\* C3: in every reachable state the store holds at most one user per emailHash,
\* i.e. per email up to case and surrounding white space, and at most one signup
\* per such email has been answered 201.
C3_OneUserPerEmail ==
  /\ \A u, v \in DOMAIN users :
        u # v => /\ users[u].emailHash # users[v].emailHash
                 /\ ~EquivEmail(signedUp[u].s, signedUp[v].s)
  /\ \A p, q \in DOMAIN ok201 : p # q => ~EquivEmail(ok201[p][1].s, ok201[q][1].s)

\* two signups for the same email raced past the lookup; the store kept one user
\* and rejected the other insert
C3_Witness ==
  /\ out.op = "signup" /\ out.status = 500
  /\ \E u \in DOMAIN users : EquivEmail(signedUp[u].s, out.body[1].s) /\ signedUp[u] # out.body[1]
  /\ Len(ok201) >= 1

\* the unconsumed login codes stored for (userId, code)
Unconsumed(userId, code) ==
  {c \in DOMAIN codes : codes[c].userId = userId /\ codes[c].code = code /\ codes[c].consumed = FALSE}

\* the stored users whose signup email equals e up to case and surrounding white space
UsersOf(e) == {u \in DOMAIN users : EquivEmail(signedUp[u].s, e)}

(* ---------------- C4 ---------------- *)

C4_Step(i) ==
  (reqs[i].op = "verify" /\ Steps_Of(i)) =>
    /\ (reqs[i].pc = "find" /\ Unconsumed(reqs[i].userId.s, reqs[i].code.s) = {})
         => (out'.status = 401 /\ out'.cookie = Undefined /\ UNCHANGED store)
    /\ (reqs[i].pc = "find" /\ Unconsumed(reqs[i].userId.s, reqs[i].code.s) # {})
         => (reqs'[i].pc = "check" /\ reqs'[i].found \in Unconsumed(reqs[i].userId.s, reqs[i].code.s))
    /\ (reqs[i].pc = "check" /\ now < codes[reqs[i].found].expiresAt)
         => reqs'[i].pc = "update"
    /\ reqs[i].pc = "update"
         => /\ out'.status = 200
            /\ ~codes[reqs[i].found].consumed
            /\ codes' = [codes EXCEPT ![reqs[i].found].consumed = TRUE]

\* C4: with requests sent one after the other, a verify whose lookup selects an
\* unconsumed login code that is unexpired at the expiry check succeeds and marks
\* that code consumed; a verify for a (userId, code) with no unconsumed login code
\* left is answered 401; so no login code yields more than one successful verify.
C4_VerifyOnceSequential ==
  /\ [][\A i \in Slots : C4_Step(i)]_vars
  /\ [](\A c \in DOMAIN grants : grants[c] <= 1)

\* a second verify of a code that was verified before has just been answered 401
C4_Witness ==
  /\ out.op = "verify" /\ out.status = 401
  /\ Unconsumed(out.body[1].s, out.body[2].s) = {}
  /\ \E c \in DOMAIN codes : /\ codes[c].userId = out.body[1].s /\ codes[c].code = out.body[2].s
                             /\ codes[c].consumed /\ grants[c] = 1

(* ---------------- C5 ---------------- *)

\* C5: a verify whose selected login code has reached its expiry at the expiry
\* check is answered 401 without a session cookie, and writes nothing: the
\* code's consumed flag and every other stored record stay as they are.
C5_ExpiredRejectedUnchanged ==
  [][\A i \in Slots :
       (/\ reqs[i].op = "verify" /\ reqs[i].pc = "check" /\ Steps_Of(i)
        /\ now >= codes[reqs[i].found].expiresAt)
       => /\ out'.op = "verify" /\ out'.status = 401 /\ out'.cookie = Undefined
          /\ reqs'[i] = Idle
          /\ UNCHANGED store]_vars

\* an expired, still unconsumed code has just been refused
C5_Witness ==
  /\ out.op = "verify" /\ out.status = 401 /\ out.error = "Code has expired. Please request a new one."
  /\ \E c \in Unconsumed(out.body[1].s, out.body[2].s) : codes[c].expiresAt <= now

(* ---------------- C6 ---------------- *)

\* an earlier signup with the same email, up to case and white space, was answered 201
SignedUpBefore(e) == \E p \in DOMAIN ok201 : EquivEmail(ok201[p][1].s, e)

\* C6: with requests sent one after the other, a signup is answered 201 unless a
\* signup with the same email up to case and surrounding white space succeeded
\* before; then it is answered 409 and none of its steps creates a user or a code.
C6_SecondSignupConflict ==
  [][\A i \in Slots :
       (reqs[i].op = "signup" /\ Steps_Of(i)) =>
         /\ Answers(i) => out'.status = (IF SignedUpBefore(reqs[i].email.s) THEN 409 ELSE 201)
         /\ SignedUpBefore(reqs[i].email.s) => (Answers(i) /\ UNCHANGED store)]_vars

\* a signup with a case / white-space variant of a registered email has just been refused
C6_Witness ==
  /\ out.op = "signup" /\ out.status = 409
  /\ \E p \in DOMAIN ok201 : ok201[p][1] # out.body[1] /\ EquivEmail(ok201[p][1].s, out.body[1].s)

(* ---------------- C7 ---------------- *)

\* C7: a verify for a (userId, code) with no unconsumed login code at its lookup
\* is answered 401 without a session cookie and changes no user and no login code.
C7_NoMatchUnauthorized ==
  [][\A i \in Slots :
       (/\ reqs[i].op = "verify" /\ reqs[i].pc = "find" /\ Steps_Of(i)
        /\ Unconsumed(reqs[i].userId.s, reqs[i].code.s) = {})
       => /\ out'.op = "verify" /\ out'.status = 401 /\ out'.cookie = Undefined
          /\ reqs'[i] = Idle
          /\ UNCHANGED store]_vars

\* a verify presenting the unconsumed code of another user has just been refused
C7_Witness ==
  /\ out.op = "verify" /\ out.status = 401
  /\ \E u \in DOMAIN users : users[u].id = out.body[1].s
  /\ \E c \in DOMAIN codes : /\ codes[c].code = out.body[2].s /\ codes[c].userId # out.body[1].s
                             /\ ~codes[c].consumed /\ now < codes[c].expiresAt

(* ---------------- C8 ---------------- *)

C8_Step(i) ==
  (reqs[i].op = "verify" /\ Steps_Of(i)) =>
    /\ reqs'[i].pc = "check"
         => /\ reqs[i].pc = "find"
            /\ reqs'[i].found \in Unconsumed(reqs[i].userId.s, reqs[i].code.s)
    /\ reqs'[i].pc = "update"
         => /\ reqs[i].pc = "check" /\ reqs'[i].found = reqs[i].found
            /\ now < codes[reqs[i].found].expiresAt
    /\ out'.status = 200
         => /\ reqs[i].pc = "update"
            /\ codes[reqs[i].found].userId = reqs[i].userId.s
            /\ codes[reqs[i].found].code = reqs[i].code.s
            /\ out'.cookie = reqs[i].userId

\* C8: a session cookie is set only by a verify answered 200 and carries the
\* requested userId; a verify is answered 200 only if its lookup selected a login
\* code with exactly that userId and code that was unconsumed then, and whose
\* expiry was strictly later than the clock at its expiry check.
C8_SessionOnlyForValidCode ==
  /\ [][\A i \in Slots : C8_Step(i)]_vars
  /\ [](out.cookie # Undefined => (out.op = "verify" /\ out.status = 200 /\ out.cookie = out.body[1]))
  /\ []((out.op = "verify" /\ out.status = 200) => out.cookie = out.body[1])

\* a session has just been issued
C8_Witness ==
  /\ out.op = "verify" /\ out.status = 200 /\ out.cookie = out.body[1]
  /\ \E c \in DOMAIN codes : /\ codes[c].userId = out.body[1].s /\ codes[c].code = out.body[2].s
                             /\ codes[c].consumed /\ grants[c] = 1

(* ---------------- C10 ---------------- *)

\* C10: a login whose email matches no stored user up to case and surrounding
\* white space is answered 404 and creates no login code and no user; a login whose
\* email matches a stored user in that sense finds that user and returns its id.
C10_LoginLookup ==
  [][\A i \in Slots :
       (reqs[i].op = "login" /\ Steps_Of(i)) =>
         /\ (reqs[i].pc = "find" /\ UsersOf(reqs[i].email.s) = {})
              => (out'.status = 404 /\ reqs'[i] = Idle /\ UNCHANGED store)
         /\ (reqs[i].pc = "find" /\ UsersOf(reqs[i].email.s) # {})
              => (reqs'[i].pc = "save" /\ \E u \in UsersOf(reqs[i].email.s) : reqs'[i].user = users[u].id)
         /\ reqs[i].pc = "save"
              => /\ out'.status = 200
                 /\ \E u \in UsersOf(reqs[i].email.s) : out'.userId = users[u].id]_vars

\* a login with a case / white-space variant of the signup email has just returned the user's id
C10_Witness ==
  /\ out.op = "login" /\ out.status = 200
  /\ \E u \in DOMAIN users : /\ signedUp[u] # out.body[1]
                             /\ EquivEmail(signedUp[u].s, out.body[1].s)
                             /\ out.userId = users[u].id

(* ---------------- C9 ---------------- *)

\* a login leaves the users and every stored login code as they are and adds one
\* unconsumed login code of the user it found, expiring OTPMinutes after its generation
C9_LoginStep(i) ==
  (reqs[i].op = "login" /\ Steps_Of(i)) =>
    /\ reqs[i].pc = "find"
         => /\ UNCHANGED store
            /\ reqs'[i].pc = "save" => reqs'[i].expiresAt = now + OTPMinutes
    /\ reqs[i].pc = "save"
         => /\ users' = users
            /\ Len(codes') = Len(codes) + 1
            /\ \A c \in DOMAIN codes : codes'[c] = codes[c]
            /\ codes'[Len(codes')].consumed = FALSE
            /\ codes'[Len(codes')].expiresAt = reqs[i].expiresAt
            /\ codes'[Len(codes')].code = out'.otpCode
            /\ \E u \in UsersOf(reqs[i].email.s) : codes'[Len(codes')].userId = users[u].id

\* a verify whose lookup selects a login code that is unexpired at the expiry check
\* succeeds and consumes that code, whatever other codes the user holds
C9_VerifyStep(i) ==
  (reqs[i].op = "verify" /\ Steps_Of(i)) =>
    /\ (reqs[i].pc = "check" /\ now < codes[reqs[i].found].expiresAt)
         => reqs'[i].pc = "update"
    /\ reqs[i].pc = "update"
         => (out'.status = 200 /\ codes'[reqs[i].found].consumed)

\* C9: a login for a known email creates exactly one new unconsumed login code of
\* that user, expiring 5 minutes after its generation, and leaves every stored
\* login code and user unchanged; each of the user's outstanding codes can then be
\* verified successfully before its expiry, and only once.
C9_LoginKeepsCodesUsableOnce ==
  /\ [][\A i \in Slots : C9_LoginStep(i) /\ C9_VerifyStep(i)]_vars
  /\ [](\A c \in DOMAIN grants : grants[c] <= 1)

(* ---------------- C11 ---------------- *)

\* a required field that was left out of the body, or sent as the empty string
MissingOrEmpty(v) == v = Undefined \/ v = Str(<<>>)

\* C11: a signup, login or verify with a required field missing or empty is
\* answered 400 at once: it never reaches a storage call, and the step that answers
\* it leaves the users, the login codes and the requests in progress as they are.
C11_BadRequestBeforeStorage ==
  /\ [](\A i \in Slots : reqs[i].op # "idle" =>
           \A j \in DOMAIN Body(reqs[i]) : ~MissingOrEmpty(Body(reqs[i])[j]))
  /\ [][(out'.op # "none" /\ \E j \in DOMAIN out'.body : MissingOrEmpty(out'.body[j]))
          => (out'.status = 400 /\ out'.cookie = Undefined /\ UNCHANGED <<store, reqs>>)]_vars

\* a verify without a code has just been answered 400 while login codes are stored
C11_Witness ==
  /\ out.op = "verify" /\ out.status = 400
  /\ ~MissingOrEmpty(out.body[1]) /\ MissingOrEmpty(out.body[2])
  /\ codes # <<>> /\ codes[1].userId = out.body[1].s

(* ---------------- C12 ---------------- *)

\* C12: a request whose required field is present but not a string (here a
\* non-zero number) is answered 400, and by no other status.
C12_MalformedIsBadRequest ==
  (out.op # "none" /\ \E j \in DOMAIN out.body : out.body[j].k \notin {"string", "undefined"})
     => out.status = 400

(* ---------------- C13 ---------------- *)

\* n is e without its surrounding white space and with its letters in lower case
IsNormalOf(n, e) ==
  /\ EquivEmail(n, e)
  /\ n = <<>> \/ (n[1] \notin WhiteSpace /\ n[Len(n)] \notin WhiteSpace)
  /\ \A j \in DOMAIN n : n[j] \notin {"A", "B"}

DigitPositions(s) == {j \in DOMAIN s : s[j] \in {"0", "1", "2", "3", "4", "5", "6", "7", "8", "9"}}

\* d is made of the decimal digits of s, in their order
IsDigitsOf(d, s) ==
  /\ Len(d) = Cardinality(DigitPositions(s))
  /\ \A j \in DigitPositions(s) : d[Cardinality({k \in DigitPositions(s) : k <= j})] = s[j]

\* the login codes stored for user u
CodesOf(u) == {c \in DOMAIN codes : codes[c].userId = u}

\* the login code a signup answered 201 created for its new user u: the first stored for u
SignupCode(u) == CHOOSE c \in CodesOf(u) : \A d \in CodesOf(u) : c <= d

\* the steps of a signup that is not refused
C13_SignupStep(i) ==
  (reqs[i].op = "signup" /\ Steps_Of(i)) =>
    /\ reqs[i].pc = "find" => UNCHANGED store
    /\ (reqs[i].pc = "create" /\ reqs'[i].pc = "save")
         => /\ codes' = codes
            /\ Len(users') = Len(users) + 1
            /\ \A u \in DOMAIN users : users'[u] = users[u] /\ users[u].id # users'[Len(users')].id
            /\ IsNormalOf(users'[Len(users')].emailHash.sha256, reqs[i].email.s)
            /\ IsDigitsOf(users'[Len(users')].phoneHash.sha256, reqs[i].phone.s)
            /\ reqs'[i].user = users'[Len(users')].id
            /\ reqs'[i].expiresAt = now + OTPMinutes
    /\ reqs[i].pc = "save"
         => /\ out'.status = 201 /\ out'.cookie = Undefined
            /\ users' = users
            /\ out'.userId = reqs[i].user
            /\ Cardinality({u \in DOMAIN users : users[u].id = out'.userId}) = 1
            /\ Len(codes') = Len(codes) + 1
            /\ \A c \in DOMAIN codes : codes'[c] = codes[c] /\ codes[c].userId # out'.userId
            /\ codes'[Len(codes')].userId = out'.userId
            /\ codes'[Len(codes')].code = out'.otpCode
            /\ codes'[Len(codes')].consumed = FALSE
            /\ codes'[Len(codes')].expiresAt = reqs[i].expiresAt
            /\ codes'[Len(codes')].expiresAt <= codes'[Len(codes')].createdAt + OTPMinutes

\* a verify presenting the pair a signup returned, while that code is unconsumed
\* and the expiry check comes before its expiry, is answered 200 with the cookie
C13_VerifyStep(i) ==
  (/\ reqs[i].op = "verify" /\ Steps_Of(i)
   /\ \E p \in DOMAIN ok201 :
        /\ ok201[p][2] = reqs[i].userId.s
        /\ CodesOf(ok201[p][2]) # {}
        /\ codes[SignupCode(ok201[p][2])].code = reqs[i].code.s
        /\ ~codes[SignupCode(ok201[p][2])].consumed
        /\ reqs[i].pc = "check" => now < codes[SignupCode(ok201[p][2])].expiresAt)
  => /\ reqs[i].pc = "find" => reqs'[i].pc = "check"
     /\ reqs[i].pc = "check" => reqs'[i].pc = "update"
     /\ reqs[i].pc = "update" => (out'.status = 200 /\ out'.cookie = reqs[i].userId)

C14_StorageFailureIsInternalError ==
  [][\A i \in Slots :
       (/\ reqs[i].op # "idle" /\ Steps_Of(i)
        /\ out'.threw \in {"StorageError", "UniqueConstraintViolation"})
       => /\ out' = [NoResponse EXCEPT !.op = reqs[i].op, !.body = Body(reqs[i]), !.status = 500,
                                        !.error = "Internal server error", !.threw = out'.threw]
          /\ reqs'[i] = Idle
          /\ UNCHANGED store]_vars

\* a storage call of a verify presenting a valid code has just failed: the answer
\* is 500 without a cookie, and the code is still unconsumed and unexpired
C14_Witness ==
  /\ out.op = "verify" /\ out.threw = "StorageError" /\ out.status = 500 /\ out.cookie = Undefined
  /\ \E c \in Unconsumed(out.body[1].s, out.body[2].s) : now < codes[c].expiresAt /\ grants[c] = 0

(* ---------------- C15 ---------------- *)

\* C15: two emails that differ only in letter case and in leading or trailing
\* white space have the same hashEmail, equal emails included (hashString is a
\* function of its input); normalizeEmail applied to its own result returns it
\* unchanged.
C15_HashEmailIgnoresCaseAndPadding ==
  /\ calc.fn = "hashEmail" =>
        /\ EquivEmail(calc.arg[1], calc.arg[2]) => calc.res[1] = calc.res[2]
        /\ calc.arg[1] = calc.arg[2] => calc.res[1] = calc.res[2]
  /\ calc.fn = "normalizeEmailTwice" => calc.res[2] = calc.res[1]

\* " A" and "a " have been hashed: both give the digest of "a"
C15_Witness ==
  /\ calc.fn = "hashEmail"
  /\ calc.arg = << <<" ", "A">>, <<"a", " ">> >>
  /\ calc.res = <<[sha256 |-> <<"a">>], [sha256 |-> <<"a">>]>>

(* ---------------- C16 ---------------- *)

DecimalDigits == {"0", "1", "2", "3", "4", "5", "6", "7", "8", "9"}

\* the value of the decimal digit c
DigitValue(c) == CHOOSE v \in 0..9 : DigitChars[v + 1] = c

RECURSIVE DecimalValue(_)
\* the number a string of decimal digits denotes, leading zeros allowed
DecimalValue(s) == IF s = <<>> THEN 0
                   ELSE 10 * DecimalValue(SubSeq(s, 1, Len(s) - 1)) + DigitValue(s[Len(s)])

\* C16: for every value the random source can yield (0..999999), generateOTP
\* returns a string of exactly 6 characters, the width of the code column, each a
\* decimal digit, which denotes the value drawn: it is padded with zeros on the left.
C16_SixDecimalDigits ==
  calc.fn = "generateOTP" =>
    /\ Len(calc.res) = CodeColumnWidth
    /\ \A j \in DOMAIN calc.res : calc.res[j] \in DecimalDigits
    /\ DecimalValue(calc.res) = calc.arg

\* the smallest draw that needs padding on five places has been formatted
C16_Witness ==
  /\ calc.fn = "generateOTP" /\ calc.arg = 7
  /\ calc.res = <<"0", "0", "0", "0", "0", "7">>

(* ---------------- C17 ---------------- *)

\* what the caller receives: status, JSON body and cookie
Received(response) == [status |-> response.status, error |-> response.error, userId |-> response.userId,
                       otpCode |-> response.otpCode, cookie |-> response.cookie]

\* no login code is stored for user u
NoCodeAtAll(u) == \A c \in DOMAIN codes : codes[c].userId # u

\* u has login codes, none of them with this code
WrongCode(u, code) ==
  /\ \E c \in DOMAIN codes : codes[c].userId = u
  /\ \A c \in DOMAIN codes : codes[c].userId = u => codes[c].code # code

\* u has login codes with this code, all of them consumed
AlreadyConsumed(u, code) ==
  /\ \E c \in DOMAIN codes : codes[c].userId = u /\ codes[c].code = code
  /\ \A c \in DOMAIN codes : (codes[c].userId = u /\ codes[c].code = code) => codes[c].consumed

\* C17: a verify whose lookup finds that the user has no login code at all, or
\* none with the code presented, or only consumed ones with it, receives in all
\* three cases the same response: status 401, the body {success: false, error:
\* "Invalid or expired code"} and no cookie.
C17_SameUnauthorizedResponse ==
  [][\A i \in Slots :
       (/\ reqs[i].op = "verify" /\ reqs[i].pc = "find" /\ Steps_Of(i)
        /\ \/ NoCodeAtAll(reqs[i].userId.s)
           \/ WrongCode(reqs[i].userId.s, reqs[i].code.s)
           \/ AlreadyConsumed(reqs[i].userId.s, reqs[i].code.s))
       => /\ out'.op = "verify"
          /\ Received(out') = [status |-> 401, error |-> "Invalid or expired code", userId |-> NoSeq,
                               otpCode |-> NoSeq, cookie |-> Undefined]]_vars

\* a verify for a user who never had a login code has just been refused, while
\* another user holds an unconsumed login code with the code presented
C17_Witness ==
  /\ out.op = "verify" /\ out.status = 401 /\ out.error = "Invalid or expired code"
  /\ NoCodeAtAll(out.body[1].s)
  /\ \E c \in DOMAIN codes : codes[c].code = out.body[2].s /\ ~codes[c].consumed

(* ---------------- C18 ---------------- *)

\* C18: no step deletes a login code or changes its id, userId, code, expiry or
\* createdAt; a consumed login code stays consumed; and a login code becomes
\* consumed only in a step of a verify request presenting its userId and code.
C18_ConsumedOnlyFalseToTrue ==
  [][/\ Len(codes') >= Len(codes)
     /\ \A c \in DOMAIN codes :
          /\ [codes'[c] EXCEPT !.consumed = FALSE] = [codes[c] EXCEPT !.consumed = FALSE]
          /\ codes[c].consumed => codes'[c].consumed
          /\ codes'[c].consumed # codes[c].consumed
               => \E i \in Slots : /\ reqs[i].op = "verify" /\ Steps_Of(i)
                                    /\ reqs[i].userId.s = codes[c].userId
                                    /\ reqs[i].code.s = codes[c].code]_vars

\* a login has just stored a second login code for a user whose first login
\* code, with the same code, was consumed before: the first is still consumed
C18_Witness ==
  /\ out.op = "login" /\ out.status = 200
  /\ Len(codes) = 2
  /\ codes[1].consumed /\ ~codes[2].consumed
  /\ codes[1].userId = codes[2].userId /\ codes[1].code = codes[2].code
  /\ codes[2].code = out.otpCode

(* ---------------- C19 ---------------- *)

\* C19: the lookup of a verify selects, among the unconsumed login codes with the
\* requested userId and code, one whose createdAt is the most recent; the update
\* of a successful verify sets the consumed flag of exactly the selected login code
\* and leaves every other login code, older duplicates included, as it is.
C19_MostRecentSelectedOnlyItConsumed ==
  [][\A i \in Slots :
       (reqs[i].op = "verify" /\ Steps_Of(i)) =>
         /\ (reqs[i].pc = "find" /\ reqs'[i].pc = "check")
              => /\ reqs'[i].found \in Unconsumed(reqs[i].userId.s, reqs[i].code.s)
                 /\ \A d \in Unconsumed(reqs[i].userId.s, reqs[i].code.s) :
                       codes[d].createdAt <= codes[reqs'[i].found].createdAt
         /\ reqs[i].pc = "check" => (UNCHANGED store /\ (reqs'[i].pc = "update" => reqs'[i].found = reqs[i].found))
         /\ reqs[i].pc = "update"
              => /\ out'.status = 200
                 /\ codes'[reqs[i].found].consumed
                 /\ \A d \in DOMAIN codes : d # reqs[i].found => codes'[d] = codes[d]
                 /\ DOMAIN codes' = DOMAIN codes]_vars

\* of two unconsumed login codes with the same userId and code, created at
\* different times, a verify has just consumed the newer one and left the older
C19_Witness ==
  /\ out.op = "verify" /\ out.status = 200
  /\ \E c, d \in DOMAIN codes :
        /\ codes[c].userId = out.body[1].s /\ codes[c].code = out.body[2].s
        /\ codes[d].userId = out.body[1].s /\ codes[d].code = out.body[2].s
        /\ codes[d].createdAt < codes[c].createdAt
        /\ codes[c].consumed /\ grants[c] = 1
        /\ ~codes[d].consumed /\ grants[d] = 0

(* ---------------- C20 ---------------- *)

\* C20: the expiry check of a verify accepts the selected login code if and only
\* if the clock reads strictly less than its expiresAt: checked at exactly
\* expiresAt (or later) the verify is answered 401 and the code stays unconsumed;
\* checked at any earlier time it goes on to consume the code and is answered 200.
C20_ExpiryCheckIsStrict ==
  [][\A i \in Slots :
       (reqs[i].op = "verify" /\ Steps_Of(i)) =>
         /\ reqs[i].pc = "check"
              => /\ UNCHANGED store
                 /\ reqs'[i].pc = "update" <=> now < codes[reqs[i].found].expiresAt
                 /\ now >= codes[reqs[i].found].expiresAt
                      => /\ out'.status = 401 /\ out'.cookie = Undefined
                         /\ reqs'[i] = Idle
                         /\ ~codes'[reqs[i].found].consumed
         /\ reqs[i].pc = "update"
              => /\ out'.status = 200
                 /\ ~codes[reqs[i].found].consumed /\ codes'[reqs[i].found].consumed]_vars

\* a verify checked at exactly the expiry of its login code has just been refused
C20_Witness ==
  /\ out.op = "verify" /\ out.status = 401
  /\ \E c \in Unconsumed(out.body[1].s, out.body[2].s) :
        /\ codes[c].expiresAt = now
        /\ \A d \in Unconsumed(out.body[1].s, out.body[2].s) : d = c

(* ---------------- C21 ---------------- *)

\* the unconsumed login codes for (userId, code) that are unexpired now
Valid(userId, code) == {c \in Unconsumed(userId, code) : now < codes[c].expiresAt}

\* request i is a verify that goes on to succeed: its lookup selects a code, its
\* expiry check passes, its update is answered 200
C21_Proceeds(i) ==
  /\ reqs[i].pc = "find" => reqs'[i].pc = "check"
  /\ reqs[i].pc = "check" => reqs'[i].pc = "update"
  /\ reqs[i].pc = "update" => (out'.status = 200 /\ out'.cookie = reqs[i].userId)

C21_ValidCodeAcceptedIfExpiryFollowsCreatedAt ==
  [][\A i \in Slots :
       (/\ reqs[i].op = "verify" /\ Steps_Of(i)
        /\ Valid(reqs[i].userId.s, reqs[i].code.s) # {}
        /\ \A c \in Unconsumed(reqs[i].userId.s, reqs[i].code.s) :
              codes[c].expiresAt = codes[c].createdAt + OTPMinutes)
       => C21_Proceeds(i)]_vars

\* a verify has just succeeded on the newer of two login codes with the same
\* userId and code, the older of which is unconsumed and expired
C21_NewerValidCodeAccepted ==
  /\ out.op = "verify" /\ out.status = 200
  /\ \E c, d \in DOMAIN codes :
        /\ codes[c].userId = out.body[1].s /\ codes[c].code = out.body[2].s
        /\ codes[d].userId = out.body[1].s /\ codes[d].code = out.body[2].s
        /\ codes[c].consumed /\ now < codes[c].expiresAt
        /\ ~codes[d].consumed /\ codes[d].expiresAt <= now
        /\ codes[c].expiresAt = codes[c].createdAt + OTPMinutes
        /\ codes[d].expiresAt = codes[d].createdAt + OTPMinutes

====
